---------------------------- MODULE Spec2Model ----------------------------
(***************************************************************************)
(* fortuner (src/src/lib.rs): find_files -> read_fortunes -> search/pick.  *)
(*                                                                         *)
(* Strings are sequences of one-character strings; Code gives the byte of  *)
(* each character, so that orderings are computed on bytes as str/OsStr    *)
(* do.  A path is the string the program holds (PathBuf keeps the bytes it *)
(* was built from); Components parses it the way std::path does.           *)
(***************************************************************************)
EXTENDS Integers, Sequences, FiniteSets, TLC

VARIABLES
    fs,          \* the file system below the working directory: file node -> bytes
    sources,     \* Cli.sources
    pattern,     \* Cli.pattern  (Option<Regex>)
    seed,        \* Cli.seed     (Option<u64>)
    pc,          \* position of run
    i,           \* loop position of the for loop being executed
    files,       \* find_files: local `files`
    run_files,   \* run: `files`, the Ok value of find_files
    fortunes,    \* read_fortunes: local `fortunes`, then run: `fortunes`
    origin,      \* ghost: origin[k] = index in run_files of the file that produced fortunes[k]
    opened,      \* ghost: the paths handed to fs::read_to_string, in order
    pre_source,  \* run: `pre_source`
    stdout,      \* what println! wrote, one entry per call
    stderr,      \* what eprintln! wrote, one entry per call
    result,      \* what run returned: Pending, Ok or Err
    rng,         \* the part of StdRng's seed -> draw function observed so far
    picks        \* pick_fortune calls made so far (seed, result)

vars == <<fs, sources, pattern, seed, pc, i, files, run_files, fortunes, origin,
          opened, pre_source, stdout, stderr, result, rng, picks>>

-----------------------------------------------------------------------------
(* Bounds *)
MaxPaths == 2      \* number of paths on the command line
MaxContent == 6    \* bytes in the file the parsing scenarios read
MaxSeed == 1       \* seeds 0..MaxSeed
MaxCorpus == 3     \* fortunes in the corpus handed to pick_fortune directly
MaxCalls == 3      \* pick_fortune calls on one corpus

-----------------------------------------------------------------------------
(* Option and Result values *)
None == [some |-> FALSE]
Some(v) == [some |-> TRUE, v |-> v]
Pending == [state |-> "pending"]
Ok == [state |-> "ok"]
Err(path, cause) == [state |-> "err", path |-> path, cause |-> cause]

-----------------------------------------------------------------------------
(* Bytes and strings *)
NL == "\n"
BadByte == "\\xFF"     \* a byte that is not valid UTF-8

Chars == {NL, "%", ".", "/", "a", "b", "c", "d", "e", "t", "x", "z", BadByte}

Code ==
    [ch \in Chars |->
        CASE ch = NL  -> 10
          [] ch = "%" -> 37
          [] ch = "." -> 46
          [] ch = "/" -> 47
          [] ch = "a" -> 97
          [] ch = "b" -> 98
          [] ch = "c" -> 99
          [] ch = "d" -> 100
          [] ch = "e" -> 101
          [] ch = "t" -> 116
          [] ch = "x" -> 120
          [] ch = "z" -> 122
          [] ch = BadByte -> 255]

Min(a, b) == IF a < b THEN a ELSE b

Range(s) == {s[k] : k \in 1..Len(s)}

\* s < t as byte strings (str / OsStr ordering)
BytesLess(s, t) ==
    \E k \in 1..(Min(Len(s), Len(t)) + 1) :
        /\ \A j \in 1..(k - 1) : s[j] = t[j]
        /\ \/ k > Len(s) /\ k <= Len(t)
           \/ k <= Len(s) /\ k <= Len(t) /\ Code[s[k]] < Code[t[k]]

Drop(s, n) == SubSeq(s, n + 1, Len(s))

\* first position at or after `from` where p occurs in s, 0 when there is none
FindFrom(s, p, from) ==
    LET hits == {k \in from..(Len(s) - Len(p) + 1) : SubSeq(s, k, k + Len(p) - 1) = p}
    IN  IF hits = {} THEN 0 ELSE CHOOSE k \in hits : \A h \in hits : k <= h

\* str::split(pat): the pieces between successive non-overlapping matches, left to right
RECURSIVE split(_, _)
split(s, p) ==
    LET k == FindFrom(s, p, 1)
    IN  IF k = 0 THEN <<s>>
        ELSE <<SubSeq(s, 1, k - 1)>> \o split(Drop(s, k + Len(p) - 1), p)

IsWhitespace(ch) == ch = NL

\* str::trim_end
RECURSIVE trim_end(_)
trim_end(s) ==
    IF s # <<>> /\ IsWhitespace(s[Len(s)]) THEN trim_end(SubSeq(s, 1, Len(s) - 1)) ELSE s

RECURSIVE Concat(_)
Concat(ss) == IF ss = <<>> THEN <<>> ELSE Head(ss) \o Concat(Tail(ss))

-----------------------------------------------------------------------------
(* std::path *)
Rank(kind) ==
    CASE kind = "RootDir" -> 1
      [] kind = "CurDir" -> 2
      [] kind = "ParentDir" -> 3
      [] kind = "Normal" -> 4

Component(kind, name) == [kind |-> kind, name |-> name]

\* Path::components on Unix: repeated separators and inner `.` vanish, a
\* leading `.` and every `..` are kept
Components(p) ==
    LET parts == split(p, <<"/">>)
        has_root == p # <<>> /\ p[1] = "/"
        one(k) ==
            IF parts[k] = <<>> THEN <<>>
            ELSE IF parts[k] = <<".">>
                 THEN IF k = 1 /\ ~has_root THEN <<Component("CurDir", <<>>)>> ELSE <<>>
            ELSE IF parts[k] = <<".", ".">> THEN <<Component("ParentDir", <<>>)>>
            ELSE <<Component("Normal", parts[k])>>
    IN  (IF has_root THEN <<Component("RootDir", <<>>)>> ELSE <<>>)
        \o Concat([k \in 1..Len(parts) |-> one(k)])

\* derived Ord of std::path::Component
ComponentLess(c, d) ==
    \/ Rank(c.kind) < Rank(d.kind)
    \/ c.kind = "Normal" /\ d.kind = "Normal" /\ BytesLess(c.name, d.name)

\* Ord of Path: lexicographic over the components
ComponentsLess(cs, ds) ==
    \E k \in 1..(Min(Len(cs), Len(ds)) + 1) :
        /\ \A j \in 1..(k - 1) : cs[j] = ds[j]
        /\ \/ k > Len(cs) /\ k <= Len(ds)
           \/ k <= Len(cs) /\ k <= Len(ds) /\ ComponentLess(cs[k], ds[k])

PathLess(p, q) == ComponentsLess(Components(p), Components(q))

\* Eq of Path
PathEq(p, q) == Components(p) = Components(q)

\* Path::file_name: the last component when it is a normal one
file_name(p) ==
    LET cs == Components(p)
    IN  IF cs # <<>> /\ cs[Len(cs)].kind = "Normal" THEN Some(cs[Len(cs)].name) ELSE None

\* last position of ch in s, 0 when absent
LastIndexOf(s, ch) ==
    LET hits == {k \in 1..Len(s) : s[k] = ch}
    IN  IF hits = {} THEN 0 ELSE CHOOSE k \in hits : \A h \in hits : h <= k

\* Path::extension: what follows the last `.` of the file name, unless the
\* name has no `.` or its only `.` is the first byte
extension(p) ==
    LET fname == file_name(p)
        dot == IF fname.some THEN LastIndexOf(fname.v, ".") ELSE 0
    IN  IF ~fname.some \/ dot <= 1 THEN None ELSE Some(Drop(fname.v, dot))

\* PathBuf::join of one file name, as WalkDir builds an entry's path
Join(p, name) == IF p[Len(p)] = "/" THEN p \o name ELSE p \o <<"/">> \o name

-----------------------------------------------------------------------------
(* The file system.  A node is the sequence of names leading to it from the
   working directory; DOMAIN fs are the regular files, every proper prefix
   of one is a directory.  Inputs are relative paths without `..`, for
   which resolution is the sequence of their normal components. *)
NodeOf(p) ==
    LET cs == Components(p)
        names == SelectSeq(cs, LAMBDA c : c.kind = "Normal")
    IN  [k \in 1..Len(names) |-> names[k].name]

IsProperPrefix(n, m) == Len(n) < Len(m) /\ SubSeq(m, 1, Len(n)) = n

IsFileNode(n) == n \in DOMAIN fs
IsDirNode(n) == \E f \in DOMAIN fs : IsProperPrefix(n, f)

\* metadata, were a failed lookup taken for an empty directory
metadata_lenient(p) ==
    IF p # <<>> /\ NodeOf(p) \in DOMAIN fs /\ p[Len(p)] # "/"
    THEN [ok |-> TRUE, kind |-> "file"]
    ELSE [ok |-> TRUE, kind |-> "dir"]

\* fs::metadata(path)
metadata(p) ==
    LET n == NodeOf(p)
        parts == split(p, <<"/">>)
        last == parts[Len(parts)]
    IN  IF p = <<>> THEN [ok |-> FALSE, cause |-> "NotFound"]
        ELSE IF IsFileNode(n)
             THEN IF last \in {<<>>, <<".">>}
                  THEN [ok |-> FALSE, cause |-> "NotADirectory"]
                  ELSE [ok |-> TRUE, kind |-> "file"]
        ELSE IF IsDirNode(n) THEN [ok |-> TRUE, kind |-> "dir"]
        ELSE IF \E f \in DOMAIN fs : IsProperPrefix(f, n)
             THEN [ok |-> FALSE, cause |-> "NotADirectory"]
        ELSE [ok |-> FALSE, cause |-> "NotFound"]

\* the paths of the regular files WalkDir::new(root) yields, root's bytes kept
RECURSIVE JoinAll(_, _)
JoinAll(p, names) == IF names = <<>> THEN p ELSE JoinAll(Join(p, Head(names)), Tail(names))

WalkDirFiles(root) ==
    {JoinAll(root, Drop(f, Len(NodeOf(root)))) :
        f \in {g \in DOMAIN fs : IsProperPrefix(NodeOf(root), g)}}

\* every order in which a walk may yield a set of entries (readdir order is
\* unspecified)
Orders(S) ==
    {o \in [1..Cardinality(S) -> S] : \A a, b \in 1..Cardinality(S) : a # b => o[a] # o[b]}

-----------------------------------------------------------------------------
(* find_files *)
dat == <<"d", "a", "t">>

\* NotDat, were the test made on the end of the file name
NotDat_suffix(p) ==
    LET fname == file_name(p)
    IN  ~(fname.some /\ Len(fname.v) >= 4
          /\ SubSeq(fname.v, Len(fname.v) - 3, Len(fname.v)) = <<".">> \o dat)

\* extension().map_or(true, |e| e != "dat")
NotDat(p) == LET e == extension(p) IN ~e.some \/ e.v # dat

\* sort, were the call left out
sort_skipped(s) == s

\* Vec::sort (stable) under Ord of PathBuf: insertion after the last entry
\* that is not greater
RECURSIVE sort(_)
Insert(s, p) ==
    LET after == {k \in 1..Len(s) : PathLess(p, s[k])}
        at == IF after = {} THEN Len(s) + 1 ELSE CHOOSE k \in after : \A h \in after : k <= h
    IN  SubSeq(s, 1, at - 1) \o <<p>> \o SubSeq(s, at, Len(s))
sort(s) == IF s = <<>> THEN <<>> ELSE Insert(sort(SubSeq(s, 1, Len(s) - 1)), s[Len(s)])

\* Vec::dedup: of a run of consecutive equal entries the first is kept
dedup(s) ==
    LET keep == {k \in 1..Len(s) : k = 1 \/ ~PathEq(s[k - 1], s[k])}
        idx(n) == CHOOSE k \in keep : Cardinality({h \in keep : h < k}) = n - 1
    IN  [n \in 1..Cardinality(keep) |-> s[idx(n)]]


-----------------------------------------------------------------------------
(* read_fortunes *)
Fortune(source, text) == [source |-> source, text |-> text]

delimiter == <<"%", NL>>

\* fs::read_to_string fails on bytes that are not UTF-8
IsUtf8(s) == BadByte \notin Range(s)

\* s.split("%\n").map(|s| s.trim_end()).filter(|s| !s.is_empty()), each
\* survivor pushed as a Fortune of `source`
read_one(source, s) ==
    LET segs == split(s, delimiter)
        trimmed == [k \in 1..Len(segs) |-> trim_end(segs[k])]
        kept == SelectSeq(trimmed, LAMBDA t : t # <<>>)
    IN  [k \in 1..Len(kept) |-> Fortune(source, kept[k])]

-----------------------------------------------------------------------------
(* pick_fortune and the search of run *)

\* Regex::is_match for a pattern that is a character class: some character
\* of the text is in the class
is_match(class, text) == \E k \in 1..Len(text) : text[k] \in class

\* pick_fortune, were the seed not used
pick_fortune_unseeded(fts, sd, r) ==
    IF Len(fts) = 0 THEN {[text |-> None, rng |-> r]}
    ELSE {[text |-> Some(fts[k].text), rng |-> r] : k \in 1..Len(fts)}

\* pick_fortune: the outcomes of one call.  slice::choose returns None on an
\* empty slice and otherwise one draw below the length; a StdRng built from
\* a seed makes the draw a function of the seed and the length (rng holds
\* the draws seen so far), thread_rng makes it free.
pick_fortune(fts, sd, r) ==
    LET n == Len(fts)
        key == <<sd.v, n>>
    IN  IF n = 0 THEN {[text |-> None, rng |-> r]}
        ELSE IF sd.some
             THEN IF key \in DOMAIN r
                  THEN {[text |-> Some(fts[r[key]].text), rng |-> r]}
                  ELSE {[text |-> Some(fts[k].text), rng |-> (key :> k) @@ r] : k \in 1..n}
        ELSE {[text |-> Some(fts[k].text), rng |-> r] : k \in 1..n}

\* needs_header, were every match given a header
needs_header_always(pre, source) == TRUE

\* if pre_source != fortune.source
needs_header(pre, source) == pre # source

NoFortunesFound ==
    <<"N", "o", " ", "f", "o", "r", "t", "u", "n", "e", "s", " ", "f", "o", "u", "n", "d">>

\* eprintln!("({})\n%", source)
header(source) == <<"(">> \o source \o <<")", NL, "%", NL>>

\* println!("{}\n%", text)
body(text) == text \o <<NL, "%", NL>>

-----------------------------------------------------------------------------
(* Inputs *)
S_a == <<"a">>
S_b == <<"b">>
S_c == <<"c">>
S_e == <<"e">>
S_a_b == <<"a", ".", "b">>
S_x_dat == <<"x", ".", "d", "a", "t">>
S_x_dat_txt == <<"x", ".", "d", "a", "t", ".", "t", "x", "t">>
S_dot_dat == <<".", "d", "a", "t">>

\* the directory tree of the discovery scenarios:
\*   a/a  a/b  a/x.dat  a/c/a  a.b  x.dat  x.dat.txt  e/x.dat  e/.dat
Tree ==
    (<<S_a, S_a>> :> <<"a", NL, "%", NL, "b", NL, "%", NL>>)
    @@ (<<S_a, S_b>> :> <<"b", NL, "%", NL>>)
    @@ (<<S_a, S_x_dat>> :> <<BadByte>>)
    @@ (<<S_a, S_c, S_a>> :> <<"a", NL, "%", NL>>)
    @@ (<<S_a_b>> :> <<"b", NL, "%", NL>>)
    @@ (<<S_x_dat>> :> <<BadByte>>)
    @@ (<<S_x_dat_txt>> :> <<"a", NL, "%", NL>>)
    @@ (<<S_e, S_x_dat>> :> <<BadByte>>)
    @@ (<<S_e, S_dot_dat>> :> <<NL>>)

\* the paths a command line may name
PathArgs ==
    { S_a,                               \* a directory
      <<"a", "/", "b">>,                 \* a file inside it
      <<".", "/", "a", "/", "b">>,       \* the same file, spelled differently
      <<"a", "/", "/", "b">>,            \* the same path, other bytes
      S_a_b,                             \* a file that sorts between a/... as bytes
      S_x_dat,                           \* a compiled index named explicitly
      S_x_dat_txt,
      S_e,                               \* a directory with nothing to load
      <<"z", "z">> }                     \* does not exist

RECURSIVE SeqsUpTo(_, _)
SeqsUpTo(S, n) ==
    IF n = 0 THEN {<<>>}
    ELSE LET shorter == SeqsUpTo(S, n - 1)
         IN  shorter \cup {Append(s, x) : s \in {t \in shorter : Len(t) = n - 1}, x \in S}

SourceLists == SeqsUpTo(PathArgs, MaxPaths) \ {<<>>}     \* clap: required = true

ContentChars == {"a", "%", NL}
Contents == SeqsUpTo(ContentChars, MaxContent) \cup {<<BadByte>>}

Patterns == {None, Some({"a"}), Some({"a", "b"}), Some({"z"})}
Seeds == {None} \cup {Some(n) : n \in 0..MaxSeed}
\* the seed is only read when there is no pattern
Modes == {m \in [pattern : Patterns, seed : Seeds] : m.pattern.some => ~m.seed.some}

\* test_pick_fortune: seed 1 on three fortunes draws the third
KnownDraws == (<<1, 3>> :> 3)

InitLocals ==
    /\ pc = "find_files"
    /\ i = 1
    /\ files = <<>>
    /\ run_files = <<>>
    /\ fortunes = <<>>
    /\ origin = <<>>
    /\ opened = <<>>
    /\ pre_source = <<>>
    /\ stdout = <<>>
    /\ stderr = <<>>
    /\ result = Pending
    /\ rng = KnownDraws
    /\ picks = <<>>

\* run on the tree, for every command line
InitDiscovery ==
    /\ fs = Tree
    /\ sources \in SourceLists

\* run on one file, for every content of it
InitParsing ==
    /\ fs \in {(<<S_a>> :> c) : c \in Contents}
    /\ sources = <<S_a>>

Init ==
    /\ InitDiscovery \/ InitParsing
    /\ \E m \in Modes : pattern = m.pattern /\ seed = m.seed
    /\ InitLocals

-----------------------------------------------------------------------------
(* find_files, one loop iteration per step *)
FindFilesErr ==
    /\ pc = "find_files" /\ i <= Len(sources)
    /\ ~metadata(sources[i]).ok
    /\ result' = Err(sources[i], metadata(sources[i]).cause)
    /\ pc' = "done"
    /\ UNCHANGED <<fs, sources, pattern, seed, i, files, run_files, fortunes, origin,
                   opened, pre_source, stdout, stderr, rng, picks>>

FindFilesFile ==
    /\ pc = "find_files" /\ i <= Len(sources)
    /\ metadata(sources[i]).ok /\ metadata(sources[i]).kind = "file"
    /\ files' = IF NotDat(sources[i]) THEN Append(files, sources[i]) ELSE files
    /\ i' = i + 1
    /\ UNCHANGED <<fs, sources, pattern, seed, pc, run_files, fortunes, origin,
                   opened, pre_source, stdout, stderr, result, rng, picks>>

FindFilesDir ==
    /\ pc = "find_files" /\ i <= Len(sources)
    /\ metadata(sources[i]).ok /\ metadata(sources[i]).kind = "dir"
    /\ \E walk \in Orders(WalkDirFiles(sources[i])) :
          files' = files \o SelectSeq(walk, NotDat)
    /\ i' = i + 1
    /\ UNCHANGED <<fs, sources, pattern, seed, pc, run_files, fortunes, origin,
                   opened, pre_source, stdout, stderr, result, rng, picks>>

FindFilesReturn ==
    /\ pc = "find_files" /\ i > Len(sources)
    /\ run_files' = dedup(sort(files))
    /\ pc' = "read_fortunes"
    /\ i' = 1
    /\ UNCHANGED <<fs, sources, pattern, seed, files, fortunes, origin,
                   opened, pre_source, stdout, stderr, result, rng, picks>>

(* read_fortunes, one file per step *)
ReadFortunesErr ==
    /\ pc = "read_fortunes" /\ i <= Len(run_files)
    /\ ~IsUtf8(fs[NodeOf(run_files[i])])
    /\ opened' = Append(opened, run_files[i])
    /\ result' = Err(file_name(run_files[i]).v, "InvalidData")
    /\ pc' = "done"
    /\ UNCHANGED <<fs, sources, pattern, seed, i, files, run_files, fortunes, origin,
                   pre_source, stdout, stderr, rng, picks>>

\* ReadFortunesFile, were the source the path instead of its file name
ReadFortunesFile_path_source ==
    /\ pc = "read_fortunes" /\ i <= Len(run_files)
    /\ IsUtf8(fs[NodeOf(run_files[i])])
    /\ opened' = Append(opened, run_files[i])
    /\ LET new == read_one(run_files[i], fs[NodeOf(run_files[i])])
       IN  /\ fortunes' = fortunes \o new
           /\ origin' = origin \o [k \in 1..Len(new) |-> i]
    /\ i' = i + 1
    /\ UNCHANGED <<fs, sources, pattern, seed, pc, files, run_files,
                   pre_source, stdout, stderr, result, rng, picks>>

ReadFortunesFile ==
    /\ pc = "read_fortunes" /\ i <= Len(run_files)
    /\ IsUtf8(fs[NodeOf(run_files[i])])
    /\ opened' = Append(opened, run_files[i])
    /\ LET new == read_one(file_name(run_files[i]).v, fs[NodeOf(run_files[i])])
       IN  /\ fortunes' = fortunes \o new
           /\ origin' = origin \o [k \in 1..Len(new) |-> i]
    /\ i' = i + 1
    /\ UNCHANGED <<fs, sources, pattern, seed, pc, files, run_files,
                   pre_source, stdout, stderr, result, rng, picks>>

ReadFortunesReturn ==
    /\ pc = "read_fortunes" /\ i > Len(run_files)
    /\ pc' = "run"
    /\ UNCHANGED <<fs, sources, pattern, seed, i, files, run_files, fortunes, origin,
                   opened, pre_source, stdout, stderr, result, rng, picks>>

(* run, after loading *)
\* RunNoFortunes, were the message written with eprintln!
RunNoFortunes_stderr ==
    /\ pc = "run" /\ fortunes = <<>>
    /\ stderr' = Append(stderr, NoFortunesFound \o <<NL>>)
    /\ result' = Ok
    /\ pc' = "done"
    /\ UNCHANGED <<fs, sources, pattern, seed, i, files, run_files, fortunes, origin,
                   opened, pre_source, stdout, rng, picks>>

RunNoFortunes ==
    /\ pc = "run" /\ fortunes = <<>>
    /\ stdout' = Append(stdout, NoFortunesFound \o <<NL>>)
    /\ result' = Ok
    /\ pc' = "done"
    /\ UNCHANGED <<fs, sources, pattern, seed, i, files, run_files, fortunes, origin,
                   opened, pre_source, stderr, rng, picks>>

RunSearchBegin ==
    /\ pc = "run" /\ fortunes # <<>> /\ pattern.some
    /\ pre_source' = <<>>
    /\ i' = 1
    /\ pc' = "search"
    /\ UNCHANGED <<fs, sources, pattern, seed, files, run_files, fortunes, origin,
                   opened, stdout, stderr, result, rng, picks>>

RunSearchMatch ==
    /\ pc = "search" /\ i <= Len(fortunes)
    /\ is_match(pattern.v, fortunes[i].text)
    /\ stderr' = IF needs_header(pre_source, fortunes[i].source)
                 THEN Append(stderr, header(fortunes[i].source)) ELSE stderr
    /\ stdout' = Append(stdout, body(fortunes[i].text))
    /\ pre_source' = fortunes[i].source
    /\ i' = i + 1
    /\ UNCHANGED <<fs, sources, pattern, seed, pc, files, run_files, fortunes, origin,
                   opened, result, rng, picks>>

RunSearchSkip ==
    /\ pc = "search" /\ i <= Len(fortunes)
    /\ ~is_match(pattern.v, fortunes[i].text)
    /\ i' = i + 1
    /\ UNCHANGED <<fs, sources, pattern, seed, pc, files, run_files, fortunes, origin,
                   opened, pre_source, stdout, stderr, result, rng, picks>>

RunSearchEnd ==
    /\ pc = "search" /\ i > Len(fortunes)
    /\ result' = Ok
    /\ pc' = "done"
    /\ UNCHANGED <<fs, sources, pattern, seed, i, files, run_files, fortunes, origin,
                   opened, pre_source, stdout, stderr, rng, picks>>

RunPick ==
    /\ pc = "run" /\ fortunes # <<>> /\ ~pattern.some
    /\ \E o \in pick_fortune(fortunes, seed, rng) :
          /\ rng' = o.rng
          /\ picks' = Append(picks, [seed |-> seed, text |-> o.text])
          /\ stdout' = IF o.text.some THEN Append(stdout, o.text.v \o <<NL>>) ELSE stdout
    /\ result' = Ok
    /\ pc' = "done"
    /\ UNCHANGED <<fs, sources, pattern, seed, i, files, run_files, fortunes, origin,
                   opened, pre_source, stderr>>

Next ==
    \/ FindFilesErr
    \/ FindFilesFile
    \/ FindFilesDir
    \/ FindFilesReturn
    \/ ReadFortunesErr
    \/ ReadFortunesFile
    \/ ReadFortunesReturn
    \/ RunNoFortunes
    \/ RunSearchBegin
    \/ RunSearchMatch
    \/ RunSearchSkip
    \/ RunSearchEnd
    \/ RunPick

Spec == Init /\ [][Next]_vars

-----------------------------------------------------------------------------
(* pick_fortune called repeatedly on one corpus *)
Corpora == SeqsUpTo({Fortune(S_a, t) : t \in {<<"a">>, <<"b">>, <<"c">>}}, MaxCorpus)

InitPick ==
    /\ fs = Tree
    /\ sources = <<S_a>>
    /\ pattern = None
    /\ seed = None
    /\ fortunes \in Corpora
    /\ pc = "pick_fortune"
    /\ i = 1
    /\ files = <<>>
    /\ run_files = <<>>
    /\ origin = <<>>
    /\ opened = <<>>
    /\ pre_source = <<>>
    /\ stdout = <<>>
    /\ stderr = <<>>
    /\ result = Pending
    /\ rng = KnownDraws
    /\ picks = <<>>

PickCall ==
    /\ pc = "pick_fortune" /\ Len(picks) < MaxCalls
    /\ \E sd \in Seeds : \E o \in pick_fortune(fortunes, sd, rng) :
          /\ rng' = o.rng
          /\ picks' = Append(picks, [seed |-> sd, text |-> o.text])
    /\ UNCHANGED <<fs, sources, pattern, seed, pc, i, files, run_files, fortunes, origin,
                   opened, pre_source, stdout, stderr, result>>

NextPick == PickCall

SpecPick == InitPick /\ [][NextPick]_vars


-----------------------------------------------------------------------------
(* Vocabulary of the properties *)

\* find_files has returned an error / a list
FindFailed == result.state = "err" /\ result.cause \in {"NotFound", "NotADirectory"}
FindReturned == pc \in {"read_fortunes", "run", "search"} \/ (pc = "done" /\ ~FindFailed)

\* read_fortunes has returned a corpus
ReadReturned == pc \in {"run", "search"} \/ (pc = "done" /\ result = Ok)

\* the path names a file or a directory of the file system
Exists(p) == p # <<>> /\ (NodeOf(p) \in DOMAIN fs \/ IsDirNode(NodeOf(p)))

\* the file nodes the command line reaches: named, or below a named directory
Reached(k) ==
    {f \in DOMAIN fs : f = NodeOf(sources[k]) \/ IsProperPrefix(NodeOf(sources[k]), f)}
Reachable == UNION {Reached(k) : k \in 1..Len(sources)}

\* the name ends in a non-empty stem followed by .dat
EndsInDotDat(name) ==
    Len(name) > 4 /\ SubSeq(name, Len(name) - 3, Len(name)) = <<".", "d", "a", "t">>

\* what follows the last / of a path string
BaseName(p) == Drop(p, LastIndexOf(p, "/"))

Indices(s) == [k \in 1..Len(s) |-> k]

-----------------------------------------------------------------------------
(* C1 *)
Matches(k) == pattern.some /\ is_match(pattern.v, fortunes[k].text)

\* the last matching record before position k, 0 when there is none
PrevMatch(k) ==
    LET before == {j \in 1..(k - 1) : Matches(j)}
    IN  IF before = {} THEN 0 ELSE CHOOSE j \in before : \A h \in before : h <= j

\* record k opens a run of equal source in the subsequence of matching records
OpensRun(k) ==
    /\ Matches(k)
    /\ PrevMatch(k) = 0 \/ fortunes[PrevMatch(k)].source # fortunes[k].source

\* the records the search loop has gone through
Searched == IF pc = "search" THEN i - 1 ELSE Len(fortunes)

\* C1: in search mode the headers written so far are exactly, in order, one
\* `(<source>)` + `%` for each searched record that matches and whose source
\* differs from that of the matching record before it (or that is the first
\* match); the tracked source is that of the last match and is untouched by
\* records that do not match.
C1_HeaderPerSourceRun ==
    (pattern.some /\ (pc = "search" \/ (pc = "done" /\ result = Ok /\ fortunes # <<>>)))
    => /\ LET opening == SelectSeq(Indices(SubSeq(fortunes, 1, Searched)), OpensRun)
          IN  stderr = [n \in 1..Len(opening) |->
                           <<"(">> \o fortunes[opening[n]].source \o <<")", NL, "%", NL>>]
       /\ pre_source = IF PrevMatch(Searched + 1) = 0 THEN <<>>
                       ELSE fortunes[PrevMatch(Searched + 1)].source

\* all records of sources a, b, a match: three headers (a), (b), (a)
C1_Witness ==
    /\ pc = "done" /\ pattern.some
    /\ \A k \in 1..Len(fortunes) : Matches(k)
    /\ \E k \in 1..Len(fortunes) : fortunes[k].source = S_b
    /\ stderr = << <<"(", "a", ")", NL, "%", NL>>, <<"(", "b", ")", NL, "%", NL>>,
                   <<"(", "a", ")", NL, "%", NL>> >>

-----------------------------------------------------------------------------
(* C2 *)

\* C2: when a pattern is supplied and no record matches it (the corpus may
\* be empty), the finished run has written nothing to either stream.
C2_SilentWhenNothingMatches ==
    (pc = "done" /\ result = Ok /\ pattern.some /\ \A k \in 1..Len(fortunes) : ~Matches(k))
    => stdout = <<>> /\ stderr = <<>>

-----------------------------------------------------------------------------
(* C3 *)

\* the non-.dat paths input k contributes, whatever the walk order
Collected(k) ==
    LET p == sources[k]
    IN  IF NodeOf(p) \in DOMAIN fs
        THEN IF EndsInDotDat(BaseName(p)) THEN {} ELSE {p}
        ELSE {q \in WalkDirFiles(p) : ~EndsInDotDat(BaseName(q))}

\* of the collected paths equal to q, the spelling of the earliest input
FirstSpelling(q) ==
    LET from == {k \in 1..Len(sources) : \E r \in Collected(k) : PathEq(r, q)}
        first == CHOOSE k \in from : \A h \in from : k <= h
    IN  CHOOSE r \in Collected(first) : PathEq(r, q)

\* C3 as stated: the returned list is strictly increasing in the byte order
\* of the path strings and names no file twice.
C3_SortedBytewise ==
    FindReturned
    => /\ \A k \in 1..(Len(run_files) - 1) : BytesLess(run_files[k], run_files[k + 1])
       /\ \A k, h \in 1..Len(run_files) : NodeOf(run_files[k]) = NodeOf(run_files[h]) => k = h

\* C3 amended: the returned list is strictly increasing in the order of
\* paths (component by component), so no two entries are equal paths, and
\* its entries are the collected paths, one spelling each, whatever order
\* the directory walks yielded them in.
C3_SortedByPathOrder ==
    FindReturned
    => /\ \A k \in 1..(Len(run_files) - 1) : PathLess(run_files[k], run_files[k + 1])
       /\ \A k, h \in 1..Len(run_files) : PathEq(run_files[k], run_files[h]) => k = h
       /\ Range(run_files) =
             {FirstSpelling(q) : q \in UNION {Collected(k) : k \in 1..Len(sources)}}

\* a directory together with a file inside it, and a file that sorts
\* differently as bytes
C3_Witness ==
    /\ FindReturned
    /\ sources = <<S_a_b, S_a>>
    /\ Len(run_files) = 4
    /\ run_files[4] = S_a_b

-----------------------------------------------------------------------------
(* C4 *)

\* C4: a reachable regular file is absent from the returned list exactly
\* when its name ends in .dat after a non-empty stem, whether it was named
\* or found by recursion; nothing else is in the list.
C4_OnlyDatExcluded ==
    FindReturned
    => /\ \A f \in Reachable :
             (\E k \in 1..Len(run_files) : NodeOf(run_files[k]) = f)
             <=> ~EndsInDotDat(f[Len(f)])
       /\ \A k \in 1..Len(run_files) : NodeOf(run_files[k]) \in Reachable

\* x.dat named and e/x.dat walked are left out, e/.dat is kept
C4_Witness ==
    /\ FindReturned
    /\ sources = <<S_e, S_x_dat>>
    /\ run_files = << <<"e", "/", ".", "d", "a", "t">> >>

-----------------------------------------------------------------------------
(* C5 *)
Missing == {k \in 1..Len(sources) : ~Exists(sources[k])}

\* C5: find_files fails exactly when some input path does not exist; the
\* error then carries the first such path of the list, no list is returned,
\* and run has read no file and written nothing.
C5_MissingPathFails ==
    (pc # "find_files" \/ i > Len(sources))
    => /\ FindFailed <=> Missing # {}
       /\ FindFailed
          => /\ result.path = sources[CHOOSE k \in Missing : \A h \in Missing : k <= h]
             /\ pc = "done"
             /\ run_files = <<>> /\ opened = <<>> /\ fortunes = <<>>
             /\ stdout = <<>> /\ stderr = <<>>

\* a valid path first, the missing one after it
C5_Witness ==
    /\ pc = "done"
    /\ sources = <<S_a, <<"z", "z">> >>
    /\ result = Err(<<"z", "z">>, "NotFound")


-----------------------------------------------------------------------------
(* C6 *)

\* the texts of the records file j of run_files produced
TextsOf(j) ==
    LET mine == SelectSeq(Indices(fortunes), LAMBDA k : origin[k] = j)
    IN  [n \in 1..Len(mine) |-> fortunes[mine[n]].text]

ContentOf(j) == fs[NodeOf(run_files[j])]

\* str::lines: the pieces between newlines, without the empty piece after a
\* final newline
Lines(s) ==
    LET parts == split(s, <<NL>>)
    IN  IF parts[Len(parts)] = <<>> THEN SubSeq(parts, 1, Len(parts) - 1) ELSE parts

RECURSIVE JoinLines(_)
JoinLines(ls) ==
    IF ls = <<>> THEN <<>>
    ELSE IF Len(ls) = 1 THEN ls[1]
    ELSE ls[1] \o <<NL>> \o JoinLines(Tail(ls))

\* the records of a content when the delimiter is a line consisting only of
\* `%`: the lines between delimiter lines, joined, trailing whitespace
\* removed, empty ones dropped
RECURSIVE LineSegments(_, _)
LineSegments(ls, acc) ==
    IF ls = <<>> THEN <<acc>>
    ELSE IF Head(ls) = <<"%">> THEN <<acc>> \o LineSegments(Tail(ls), <<>>)
    ELSE LineSegments(Tail(ls), Append(acc, Head(ls)))

LineRecords(s) ==
    LET segs == LineSegments(Lines(s), <<>>)
        texts == [k \in 1..Len(segs) |-> trim_end(JoinLines(segs[k]))]
    IN  SelectSeq(texts, LAMBDA t : t # <<>>)

DelimiterLines(s) == Cardinality({k \in 1..Len(Lines(s)) : Lines(s)[k] = <<"%">>})

\* texts joined with the delimiter: each text followed by a `%` line
RECURSIVE JoinDelimited(_)
JoinDelimited(ts) ==
    IF ts = <<>> THEN <<>>
    ELSE IF Len(ts) = 1 THEN ts[1] \o <<NL, "%">>
    ELSE ts[1] \o <<NL, "%", NL>> \o JoinDelimited(Tail(ts))

\* a content of N delimiter lines closing N non-empty segments, none of them
\* with whitespace to trim other than the newline before its delimiter
Delimited(s) ==
    /\ Len(LineRecords(s)) = DelimiterLines(s)
    /\ JoinDelimited(LineRecords(s)) = trim_end(s)

\* C6: a file whose content has N lines consisting only of `%`, each closing
\* a non-empty segment, yields exactly N records, and their texts joined
\* with the delimiter give back the trimmed content.
C6_SplitRoundTrip ==
    ReadReturned
    => \A j \in 1..Len(run_files) :
          Delimited(ContentOf(j))
          => /\ Len(TextsOf(j)) = DelimiterLines(ContentOf(j))
             /\ JoinDelimited(TextsOf(j)) = trim_end(ContentOf(j))

-----------------------------------------------------------------------------
(* C9 *)

\* C9: every text of the corpus is non-empty and has no line consisting only
\* of `%`, its last line included.
C9_TextInvariant ==
    \A k \in 1..Len(fortunes) :
        /\ fortunes[k].text # <<>>
        /\ \A n \in 1..Len(Lines(fortunes[k].text)) : Lines(fortunes[k].text)[n] # <<"%">>

-----------------------------------------------------------------------------
(* C10 *)

\* the texts occur in s one after the other, without overlap
RECURSIVE OccurInOrder(_, _, _)
OccurInOrder(ts, s, from) ==
    \/ ts = <<>>
    \/ /\ FindFrom(s, Head(ts), from) # 0
       /\ OccurInOrder(Tail(ts), s, FindFrom(s, Head(ts), from) + Len(Head(ts)))

\* C10: the corpus lists the records file by file in the order of the file
\* list and, within a file, in their order of appearance in its content;
\* every record carries the base name of its file; the records of a file
\* are those of that file alone; files are read once each, in list order.
C10_CorpusOrder ==
    (pc \in {"read_fortunes", "run", "search"} \/ (pc = "done" /\ result = Ok))
    => /\ \A k \in 1..(Len(fortunes) - 1) : origin[k] <= origin[k + 1]
       /\ \A k \in 1..Len(fortunes) :
             /\ origin[k] \in 1..Len(opened)
             /\ fortunes[k].source = BaseName(run_files[origin[k]])
       /\ opened = SubSeq(run_files, 1, Len(opened))
       /\ \A j \in 1..Len(opened) :
             /\ OccurInOrder(TextsOf(j), ContentOf(j), 1)
             /\ [n \in 1..Len(TextsOf(j)) |-> Fortune(BaseName(run_files[j]), TextsOf(j)[n])]
                = read_one(BaseName(run_files[j]), ContentOf(j))

\* three files loaded, the first with two records
C10_Witness ==
    /\ pc = "run"
    /\ Len(run_files) = 3
    /\ origin = <<1, 1, 2, 3>>
    /\ fortunes[2].text = <<"b">> /\ fortunes[3].source = S_b /\ fortunes[4].source = S_a

-----------------------------------------------------------------------------
(* C8 *)
LoadSucceeds ==
    /\ Missing = {}
    /\ \A f \in Reachable : ~EndsInDotDat(f[Len(f)]) => BadByte \notin Range(fs[f])

\* C8: without a pattern, when every input exists and every file loads, run
\* returns Ok; on an empty corpus it has written the one line
\* `No fortunes found` to standard output and nothing else, on a non-empty
\* corpus the text of one record followed by a newline and nothing else.
C8_RandomModeOutput ==
    (pc = "done" /\ ~pattern.some /\ LoadSucceeds)
    => /\ result = Ok
       /\ stderr = <<>>
       /\ fortunes = <<>>
          => stdout = << <<"N", "o", " ", "f", "o", "r", "t", "u", "n", "e", "s", " ",
                           "f", "o", "u", "n", "d", NL>> >>
       /\ fortunes # <<>>
          => \E k \in 1..Len(fortunes) : stdout = <<fortunes[k].text \o <<NL>>>>

\* files were loaded, none held a record
C8_Witness ==
    /\ pc = "done" /\ ~pattern.some /\ result = Ok
    /\ opened # <<>> /\ fortunes = <<>>
    /\ Len(stdout) = 1

-----------------------------------------------------------------------------
(* C7 *)

\* C7: two calls of pick_fortune on the same corpus with the same seed
\* return the same result; a call returns None exactly when the corpus is
\* empty and otherwise the text of one of its records; seed 1 on three
\* records returns the third (test_pick_fortune).
C7_SeededPickDeterministic ==
    \A m, n \in 1..Len(picks) :
        /\ (picks[m].seed.some /\ picks[m].seed = picks[n].seed)
           => picks[m].text = picks[n].text
        /\ ~picks[m].text.some <=> fortunes = <<>>
        /\ picks[m].text.some => \E k \in 1..Len(fortunes) : fortunes[k].text = picks[m].text.v
        /\ (picks[m].seed = Some(1) /\ Len(fortunes) = 3) => picks[m].text.v = fortunes[3].text

\* the same seed twice, another seed in between, on records of distinct texts
C7_Witness ==
    /\ Len(picks) = 3
    /\ picks[1].seed = Some(0) /\ picks[3].seed = Some(0) /\ picks[2].seed = Some(1)
    /\ Len(fortunes) = 2 /\ fortunes[1].text # fortunes[2].text
    /\ picks[1].text # picks[2].text

=============================================================================
